---- MODULE Spec2Model ----
(***************************************************************************)
(* Event-Monitoring: the persistence/dedup store (DatabaseManager), the    *)
(* Notifier, the content extractors' store step, the FirmDetector, the     *)
(* event and job extractors and MonitoringJob.run, as a state machine.     *)
(*                                                                         *)
(* The store is a relational database reached through SQLAlchemy sessions. *)
(* Two library behaviours decide what the callers of the store observe and *)
(* are modelled explicitly:                                                *)
(*   - sessionmaker(bind=engine) keeps the default expire_on_commit, so    *)
(*     Session.commit() expires every instance still held by the session;  *)
(*     Session.close() then detaches it.  Reading a column of an expired,  *)
(*     detached instance raises DetachedInstanceError.                     *)
(*   - relationship(...) is lazy: reading record.firm of a detached        *)
(*     instance whose firm was never loaded raises DetachedInstanceError.  *)
(***************************************************************************)
EXTENDS Integers, Sequences, FiniteSets, TLC

VARIABLES db, files, digests, pre, last, run, det

vars == <<db, files, digests, pre, last, run, det>>

(***************************************************************************)
(* Bounds and input domains                                                *)
(***************************************************************************)
MaxInitEvents == 1
MaxInitJobs == 1
MaxInitContent == 1
MaxLogs == 2
MaxSaves == 1

FirmNames == {"Citadel", "Optiver"}
Titles == {"Talk", "Workshop"}
Dates == {"d1", "d2"}
Urls == {"u1", "u2"}
NULL == "NULL"
Websites == {NULL, "w1"}

(***************************************************************************)
(* Results handed back to a caller                                         *)
(***************************************************************************)
NoSummary == [events_notified |-> 0, jobs_notified |-> 0, total_notifications |-> 0]

Res(kind, exc, objs, flag, summary) ==
    [kind |-> kind, exc |-> exc, objs |-> objs, flag |-> flag, summary |-> summary]

ReturnNone == Res("none", "", <<>>, FALSE, NoSummary)
ReturnVoid == Res("void", "", <<>>, FALSE, NoSummary)
ReturnObj(o) == Res("record", "", <<o>>, FALSE, NoSummary)
ReturnList(s) == Res("list", "", s, FALSE, NoSummary)
ReturnBool(b) == Res("bool", "", <<>>, b, NoSummary)
ReturnSummary(s) == Res("summary", "", <<>>, FALSE, s)
Raise(e) == Res("raised", e, <<>>, FALSE, NoSummary)

(***************************************************************************)
(* ORM instances and the session that owns them                            *)
(***************************************************************************)
\* An instance produced by a query, by refresh() or by add()+commit()+refresh():
\* attached to its session, columns loaded, the lazy firm relationship not loaded.
query_result(table, id) ==
    [table |-> table, id |-> id, attached |-> TRUE, expired |-> FALSE, rel |-> FALSE]

\* session.expunge(instance): the instance leaves the session as it is.
expunge(o) == [o EXCEPT !.attached = FALSE]

\* Normal exit of `with get_session()`: session.commit() expires every instance
\* the session still holds, session.close() detaches it.
session_exit(o) ==
    IF o.attached THEN [o EXCEPT !.expired = TRUE, !.attached = FALSE] ELSE o

\* Reading a column attribute (id, title, ...) of an instance.
readable_column(o) == o.attached \/ ~o.expired

\* Reading the firm relationship (record.firm.name) of an instance.
readable_relationship(o) == o.attached \/ o.rel

(***************************************************************************)
(* Tables                                                                  *)
(***************************************************************************)
Max(S) == CHOOSE x \in S : \A y \in S : y <= x

\* Integer primary key assigned by the database on insert.
NextId(rows) == IF rows = {} THEN 1 ELSE Max({r.id : r \in rows}) + 1

RowById(rows, i) == CHOOSE r \in rows : r.id = i

\* Rows of a table in primary-key order (the order .all() yields them).
AllRows(rows) == [i \in 1..Cardinality(rows) |-> RowById(rows, i)]

Firm(id, name, website) == [id |-> id, name |-> name, website |-> website]

Event(id, firm_id, title, event_date, notified) ==
    [id |-> id, firm_id |-> firm_id, title |-> title, event_date |-> event_date,
     notified |-> notified]

JobPosting(id, firm_id, title, job_url, notified) ==
    [id |-> id, firm_id |-> firm_id, title |-> title, job_url |-> job_url,
     notified |-> notified]

Content(id, firm_id, title, url, notified) ==
    [id |-> id, firm_id |-> firm_id, title |-> title, url |-> url, notified |-> notified]

ScrapeLog(source_name, scrape_type, success) ==
    [source_name |-> source_name, scrape_type |-> scrape_type, success |-> success]

EmptyDb ==
    [firms |-> {}, events |-> {}, jobs |-> {}, blogs |-> {}, reports |-> {},
     videos |-> {}, logs |-> <<>>]

(***************************************************************************)
(* DatabaseManager                                                         *)
(***************************************************************************)
\* The methods class DatabaseManager defines; calling any other name on it
\* raises AttributeError.
DatabaseManagerMethods ==
    {"create_tables", "get_session", "get_or_create_firm", "add_event",
     "add_job_posting", "get_unnotified_events", "get_unnotified_jobs",
     "mark_event_notified", "mark_job_notified", "log_scrape",
     "get_firms_with_events", "get_firm_event_history"}

\* get_or_create_firm(name, **kwargs): the firm is looked up by name; a missing
\* one is inserted and committed in this call's own session.  The instance is
\* returned from inside the with-block, so the session exit expires it.
get_or_create_firm(d, name, website) ==
    LET found == {f \in d.firms : f.name = name}
    IN  IF found # {}
        THEN [db |-> d,
              res |-> ReturnObj(session_exit(query_result("firms", (CHOOSE f \in found : TRUE).id)))]
        ELSE LET id == NextId(d.firms)
             IN  [db |-> [d EXCEPT !.firms = @ \cup {Firm(id, name, website)}],
                  res |-> ReturnObj(session_exit(query_result("firms", id)))]

\* add_event(firm_name, title, **kwargs): firm get-or-create in a session of
\* its own, then firm.id is read for the duplicate query.  A
\* DetachedInstanceError is an SQLAlchemyError: get_session rolls this call's
\* session back (the firm was committed by the other session) and re-raises.
add_event(d, firm_name, title, event_date) ==
    LET g == get_or_create_firm(d, firm_name, NULL)
        firm == g.res.objs[1]
    IN  IF ~readable_column(firm)
        THEN [db |-> g.db, res |-> Raise("DetachedInstanceError")]
        ELSE LET existing == {e \in g.db.events : e.firm_id = firm.id /\ e.title = title}
             IN  IF existing # {}
                 THEN [db |-> g.db, res |-> ReturnNone]
                 ELSE LET id == NextId(g.db.events)
                      IN  [db |-> [g.db EXCEPT !.events =
                                       @ \cup {Event(id, firm.id, title, event_date, FALSE)}],
                           res |-> ReturnObj(session_exit(query_result("events", id)))]

\* A duplicate query that also filters by title.
add_job_posting_by_title(d, firm_name, title, job_url) ==
    LET g == get_or_create_firm(d, firm_name, NULL)
        firm == g.res.objs[1]
        existing == {j \in g.db.jobs : j.job_url = job_url /\ j.title = title}
    IN  IF existing # {}
        THEN [db |-> g.db, res |-> ReturnNone]
        ELSE IF ~readable_column(firm)
        THEN [db |-> g.db, res |-> Raise("DetachedInstanceError")]
        ELSE LET id == NextId(g.db.jobs)
             IN  [db |-> [g.db EXCEPT !.jobs =
                              @ \cup {JobPosting(id, firm.id, title, job_url, FALSE)}],
                  res |-> ReturnObj(session_exit(query_result("job_postings", id)))]

\* add_job_posting(firm_name, title, job_url, **kwargs): as add_event, the
\* duplicate query is by job_url alone.
add_job_posting(d, firm_name, title, job_url) ==
    LET g == get_or_create_firm(d, firm_name, NULL)
        firm == g.res.objs[1]
        existing == {j \in g.db.jobs : j.job_url = job_url}
    IN  IF existing # {}
        THEN [db |-> g.db, res |-> ReturnNone]
        ELSE IF ~readable_column(firm)
        THEN [db |-> g.db, res |-> Raise("DetachedInstanceError")]
        ELSE LET id == NextId(g.db.jobs)
             IN  [db |-> [g.db EXCEPT !.jobs =
                              @ \cup {JobPosting(id, firm.id, title, job_url, FALSE)}],
                  res |-> ReturnObj(session_exit(query_result("job_postings", id)))]

Unnotified(table, rows) ==
    LET all == AllRows(rows)
        sel == SelectSeq(all, LAMBDA r : ~r.notified)
    IN  [i \in 1..Len(sel) |-> session_exit(expunge(query_result(table, sel[i].id)))]

\* get_unnotified_events(): every row with notified = False, each expunged
\* before the session exits.
get_unnotified_events(d) == [db |-> d, res |-> ReturnList(Unnotified("events", d.events))]

\* get_unnotified_jobs()
get_unnotified_jobs(d) == [db |-> d, res |-> ReturnList(Unnotified("job_postings", d.jobs))]

\* A mark step that flips the flag instead of setting it.
mark_event_notified_flip(d, event_id) ==
    [db |-> [d EXCEPT !.events =
                 {IF r.id = event_id THEN [r EXCEPT !.notified = ~@] ELSE r : r \in @}],
     res |-> ReturnVoid]

SetNotified(rows, id) ==
    {IF r.id = id THEN [r EXCEPT !.notified = TRUE] ELSE r : r \in rows}

\* A mark step that updates every event instead of the one with the id.
mark_event_notified_all(d, event_id) ==
    [db |-> [d EXCEPT !.events = {[r EXCEPT !.notified = TRUE] : r \in @}], res |-> ReturnVoid]

\* mark_event_notified(event_id)
mark_event_notified(d, event_id) ==
    [db |-> [d EXCEPT !.events = SetNotified(@, event_id)], res |-> ReturnVoid]

\* A mark step whose query lost its id filter.
mark_job_notified_all(d, job_id) ==
    [db |-> [d EXCEPT !.jobs = {[r EXCEPT !.notified = TRUE] : r \in @}], res |-> ReturnVoid]

\* mark_job_notified(job_id)
mark_job_notified(d, job_id) ==
    [db |-> [d EXCEPT !.jobs = SetNotified(@, job_id)], res |-> ReturnVoid]

\* A log_scrape that skips a row equal to one already logged.
log_scrape_dedup(d, source_name, scrape_type, success) ==
    LET row == ScrapeLog(source_name, scrape_type, success)
    IN  [db |-> IF \E i \in 1..Len(d.logs) : d.logs[i] = row
                THEN d ELSE [d EXCEPT !.logs = Append(@, row)],
         res |-> ReturnVoid]

\* log_scrape(source_name, scrape_type, success, ...)
log_scrape(d, source_name, scrape_type, success) ==
    [db |-> [d EXCEPT !.logs = Append(@, ScrapeLog(source_name, scrape_type, success))],
     res |-> ReturnVoid]

(***************************************************************************)
(* Notifier                                                                *)
(***************************************************************************)
Channels == {"console", "sent", "smtp_error", "incomplete"}

\* _format_events_message / _format_jobs_message: every record's columns and
\* its record.firm.name are read.
format_message(records) ==
    \A i \in 1..Len(records) :
        readable_column(records[i]) /\ readable_relationship(records[i])

\* The send step of _notify_*: print when email is disabled, otherwise
\* _send_email, which delivers only when the configuration is complete and
\* SMTP raises nothing, and never raises itself.
deliver(dg, channel, kind, records) ==
    IF channel \in {"console", "sent"}
    THEN Append(dg, [kind |-> kind, ids |-> {records[i].id : i \in 1..Len(records)}])
    ELSE dg

RECURSIVE mark_each(_, _, _, _)
\* `for record in records: self.db.mark_*_notified(record.id)`
mark_each(d, kind, records, i) ==
    IF i > Len(records) THEN d
    ELSE mark_each(IF kind = "events"
                   THEN mark_event_notified(d, records[i].id).db
                   ELSE mark_job_notified(d, records[i].id).db,
                   kind, records, i + 1)

\* _notify_events(events) / _notify_jobs(jobs): format, deliver, mark.
notify_records(d, dg, channel, kind, records) ==
    IF ~format_message(records)
    THEN [db |-> d, digests |-> dg, ok |-> FALSE]
    ELSE [db |-> mark_each(d, kind, records, 1),
          digests |-> deliver(dg, channel, kind, records), ok |-> TRUE]

\* notify_new_items(): the five unnotified queries come first, then one
\* digest per non-empty list, then the summary.
notify_new_items(d, dg, channel) ==
    LET events == get_unnotified_events(d).res.objs
        jobs == get_unnotified_jobs(d).res.objs
    IN  IF ~({"get_unnotified_blog_posts", "get_unnotified_reports",
              "get_unnotified_videos"} \subseteq DatabaseManagerMethods)
        THEN [db |-> d, digests |-> dg, res |-> Raise("AttributeError")]
        ELSE LET ne == IF Len(events) > 0
                       THEN notify_records(d, dg, channel, "events", events)
                       ELSE [db |-> d, digests |-> dg, ok |-> TRUE]
                 nj == IF ne.ok /\ Len(jobs) > 0
                       THEN notify_records(ne.db, ne.digests, channel, "jobs", jobs)
                       ELSE ne
             IN  IF ~nj.ok
                 THEN [db |-> nj.db, digests |-> nj.digests,
                       res |-> Raise("DetachedInstanceError")]
                 ELSE [db |-> nj.db, digests |-> nj.digests,
                       res |-> ReturnSummary(
                           [events_notified |-> Len(events), jobs_notified |-> Len(jobs),
                            total_notifications |-> Len(events) + Len(jobs)])]

(***************************************************************************)
(* Content extractors: the store step of blog posts, reports and videos    *)
(***************************************************************************)
\* One more file written by save_blog_post / save_report / save_transcript.
save_file(fl, kind) == [fl EXCEPT ![kind] = @ + 1]

\* The tail shared by the three _process_* methods once the candidate is known
\* to be new: get_or_create_firm in a session of its own, firm.id read for the
\* new row, session.add, session.commit, return True.
store_new(d, fl, table, title, url, firm_name) ==
    LET g == get_or_create_firm(d, firm_name, NULL)
        firm == g.res.objs[1]
    IN  IF ~readable_column(firm)
        THEN [db |-> g.db, files |-> fl, res |-> Raise("DetachedInstanceError")]
        ELSE [db |-> [g.db EXCEPT ![table] =
                         @ \cup {Content(NextId(g.db[table]), firm.id, title, url, FALSE)}],
              files |-> fl, res |-> ReturnBool(TRUE)]

\* BlogScraper._process_blog_post(post, firm_name).  saved: the post has (or
\* the fetch yields) content and save_blog_post writes it.
_process_blog_post(d, fl, title, url, firm_name, saved) ==
    IF url = "" \/ title = ""
    THEN [db |-> d, files |-> fl, res |-> ReturnBool(FALSE)]
    ELSE LET fl2 == IF saved THEN save_file(fl, "blog_posts") ELSE fl
         IN  IF \E b \in d.blogs : b.url = url
             THEN [db |-> d, files |-> fl2, res |-> ReturnBool(FALSE)]
             ELSE store_new(d, fl2, "blogs", title, url, firm_name)

\* A report step without the already-exists query.
_process_report_unchecked(d, fl, title, url, firm_name, saved) ==
    IF url = "" \/ title = ""
    THEN [db |-> d, files |-> fl, res |-> ReturnBool(FALSE)]
    ELSE store_new(d, IF saved THEN save_file(fl, "reports") ELSE fl,
                   "reports", title, url, firm_name)

\* ReportScraper._process_report(report, firm_name).  saved: the url ends in
\* .pdf, the download succeeds and save_report writes it.
_process_report(d, fl, title, url, firm_name, saved) ==
    IF url = "" \/ title = ""
    THEN [db |-> d, files |-> fl, res |-> ReturnBool(FALSE)]
    ELSE IF \E r \in d.reports : r.url = url
    THEN [db |-> d, files |-> fl, res |-> ReturnBool(FALSE)]
    ELSE store_new(d, IF saved THEN save_file(fl, "reports") ELSE fl,
                   "reports", title, url, firm_name)

\* VideoScraper._process_video(video, firm_name).  has_id: the candidate has a
\* video_id; saved: a transcript is found and save_transcript writes it.
_process_video(d, fl, title, url, firm_name, has_id, saved) ==
    IF ~has_id \/ url = ""
    THEN [db |-> d, files |-> fl, res |-> ReturnBool(FALSE)]
    ELSE IF \E v \in d.videos : v.url = url
    THEN [db |-> d, files |-> fl, res |-> ReturnBool(FALSE)]
    ELSE store_new(d, IF saved THEN save_file(fl, "transcripts") ELSE fl,
                   "videos", title, url, firm_name)

(***************************************************************************)
(* Initial states: the database the manager is opened on                   *)
(***************************************************************************)
\* DatabaseManager.__init__ opens the database at db_url and create_all adds
\* the missing tables only: the rows already in the file stay.  The initial
\* stores are the ones that satisfy the schema (unique firm name, unique
\* job_url / url, foreign keys, integer keys 1..n) and the (firm, title)
\* identity of events.
InjSeqs ==
    {<<>>} \cup {<<a>> : a \in FirmNames}
           \cup {<<p[1], p[2]>> : p \in {q \in FirmNames \X FirmNames : q[1] # q[2]}}

FirmsOf(s) == {Firm(i, s[i], NULL) : i \in 1..Len(s)}

SeqsUpTo(S, n) == UNION {[1..k -> S] : k \in 0..n}

EventKey(r) == <<r.firm_id, r.title>>

UrlKey(r) == r.url

UniqueEvents(s) == \A i, j \in 1..Len(s) : i # j => EventKey(s[i]) # EventKey(s[j])

UniqueUrls(s) == \A i, j \in 1..Len(s) : i # j => UrlKey(s[i]) # UrlKey(s[j])

EventTables(firmIds) ==
    {{Event(i, s[i].firm_id, s[i].title, "d1", s[i].notified) : i \in 1..Len(s)} :
        s \in {t \in SeqsUpTo([firm_id : firmIds, title : Titles, notified : BOOLEAN],
                              MaxInitEvents) : UniqueEvents(t)}}

JobTables(firmIds) ==
    {{JobPosting(i, s[i].firm_id, "Talk", s[i].url, s[i].notified) : i \in 1..Len(s)} :
        s \in {t \in SeqsUpTo([firm_id : firmIds, url : Urls, notified : BOOLEAN],
                              MaxInitJobs) : UniqueUrls(t)}}

ContentTables(firmIds) ==
    {{Content(i, 1, "Talk", s[i].url, FALSE) : i \in 1..Len(s)} :
        s \in {t \in SeqsUpTo([url : Urls], IF firmIds = {} THEN 0 ELSE MaxInitContent) :
                  UniqueUrls(t)}}

NoFiles == [blog_posts |-> 0, reports |-> 0, transcripts |-> 0]

\* No monitoring run has started.
NoConfig == [event_sources |-> <<>>, scrape_known_firms |-> TRUE, scrape_event_firms |-> TRUE]

NoRun ==
    [pc |-> "idle", queue |-> <<>>, calls |-> <<>>, total |-> 0, notify_calls |-> 0,
     first_failed |-> 0, result |-> "", config |-> NoConfig]

\* The detector has not been called.
NoDetection == [op |-> "none", title |-> "", description |-> "", result |-> ""]

NoCall ==
    [op |-> "init", firm |-> "", title |-> "", url |-> "", date |-> "", website |-> "",
     id |-> 0, channel |-> "", res |-> ReturnVoid]

Call(op, firm, title, url, date, website, id, channel, res) ==
    [op |-> op, firm |-> firm, title |-> title, url |-> url, date |-> date,
     website |-> website, id |-> id, channel |-> channel, res |-> res]

Init ==
    /\ \E s \in InjSeqs :
         \E ev \in EventTables(1..Len(s)), jb \in JobTables(1..Len(s)) :
            db = [EmptyDb EXCEPT !.firms = FirmsOf(s), !.events = ev, !.jobs = jb]
    /\ files = NoFiles
    /\ digests = <<>>
    /\ pre = db
    /\ last = NoCall
    /\ run = NoRun
    /\ det = NoDetection

InitContent ==
    /\ \E s \in InjSeqs :
         \E bl \in ContentTables(1..Len(s)), rp \in ContentTables(1..Len(s)),
            vd \in ContentTables(1..Len(s)) :
            db = [EmptyDb EXCEPT !.firms = FirmsOf(s), !.blogs = bl, !.reports = rp,
                                 !.videos = vd]
    /\ files = NoFiles
    /\ digests = <<>>
    /\ pre = db
    /\ last = NoCall
    /\ run = NoRun
    /\ det = NoDetection

(***************************************************************************)
(* Actions: one call of an operation                                       *)
(***************************************************************************)
\* A call on the store: out is what the operation computes from db.
StoreCall(out, call) ==
    /\ pre' = db
    /\ db' = out.db
    /\ last' = [call EXCEPT !.res = out.res]
    /\ UNCHANGED <<files, digests, run, det>>

GetOrCreateFirm(name, website) ==
    StoreCall(get_or_create_firm(db, name, website),
              Call("get_or_create_firm", name, "", "", "", website, 0, "", ReturnVoid))

AddEvent(firm_name, title, event_date) ==
    StoreCall(add_event(db, firm_name, title, event_date),
              Call("add_event", firm_name, title, "", event_date, "", 0, "", ReturnVoid))

AddJobPosting(firm_name, title, job_url) ==
    StoreCall(add_job_posting(db, firm_name, title, job_url),
              Call("add_job_posting", firm_name, title, job_url, "", "", 0, "", ReturnVoid))

GetUnnotifiedEvents ==
    StoreCall(get_unnotified_events(db),
              Call("get_unnotified_events", "", "", "", "", "", 0, "", ReturnVoid))

GetUnnotifiedJobs ==
    StoreCall(get_unnotified_jobs(db),
              Call("get_unnotified_jobs", "", "", "", "", "", 0, "", ReturnVoid))

MarkEventNotified(event_id) ==
    StoreCall(mark_event_notified(db, event_id),
              Call("mark_event_notified", "", "", "", "", "", event_id, "", ReturnVoid))

MarkJobNotified(job_id) ==
    StoreCall(mark_job_notified(db, job_id),
              Call("mark_job_notified", "", "", "", "", "", job_id, "", ReturnVoid))

LogScrape(source_name, scrape_type, success) ==
    /\ Len(db.logs) < MaxLogs
    /\ StoreCall(log_scrape(db, source_name, scrape_type, success),
                 Call("log_scrape", source_name, "", "", "", "", 0, "", ReturnBool(success)))

NotifyNewItems(channel) ==
    LET out == notify_new_items(db, digests, channel)
    IN  /\ pre' = db
        /\ db' = out.db
        /\ digests' = out.digests
        /\ last' = Call("notify_new_items", "", "", "", "", "", 0, channel, out.res)
        /\ UNCHANGED <<files, run, det>>

ContentCall(out, call) ==
    /\ \A k \in DOMAIN out.files : out.files[k] <= MaxSaves
    /\ pre' = db
    /\ db' = out.db
    /\ files' = out.files
    /\ last' = [call EXCEPT !.res = out.res]
    /\ UNCHANGED <<digests, run, det>>

ProcessBlogPost(title, url, firm_name, saved) ==
    ContentCall(_process_blog_post(db, files, title, url, firm_name, saved),
                Call("_process_blog_post", firm_name, title, url, "", "", 0, "", ReturnVoid))

ProcessReport(title, url, firm_name, saved) ==
    ContentCall(_process_report(db, files, title, url, firm_name, saved),
                Call("_process_report", firm_name, title, url, "", "", 0, "", ReturnVoid))

ProcessVideo(title, url, firm_name, has_id, saved) ==
    ContentCall(_process_video(db, files, title, url, firm_name, has_id, saved),
                Call("_process_video", firm_name, title, url, "", "", 0, "", ReturnVoid))

Next ==
    \/ \E n \in FirmNames, w \in Websites : GetOrCreateFirm(n, w)
    \/ \E n \in FirmNames, t \in Titles, dt \in Dates : AddEvent(n, t, dt)
    \/ \E n \in FirmNames, t \in Titles, u \in Urls : AddJobPosting(n, t, u)
    \/ GetUnnotifiedEvents
    \/ GetUnnotifiedJobs
    \/ \E i \in 1..(Cardinality(db.events) + 1) : MarkEventNotified(i)
    \/ \E i \in 1..(Cardinality(db.jobs) + 1) : MarkJobNotified(i)
    \/ \E ok \in BOOLEAN : LogScrape("MIT CSAIL", "event", ok)
    \/ \E c \in Channels : NotifyNewItems(c)

Spec == Init /\ [][Next]_vars

NextContent ==
    \/ \E t \in {"", "Talk"}, u \in Urls \cup {""}, n \in FirmNames, sv \in BOOLEAN :
          ProcessBlogPost(t, u, n, sv)
    \/ \E t \in {"", "Talk"}, u \in Urls \cup {""}, n \in FirmNames, sv \in BOOLEAN :
          ProcessReport(t, u, n, sv)
    \/ \E u \in Urls \cup {""}, n \in FirmNames, id \in BOOLEAN, sv \in BOOLEAN :
          ProcessVideo("Talk", u, n, id, sv)

SpecContent == InitContent /\ [][NextContent]_vars

(***************************************************************************)
(* Registry (firms_list.py).  Python strings are TLA+ strings; TLC applies *)
(* Len, SubSeq, Head, Tail and \o to them.                                 *)
(***************************************************************************)
QUANT_FIRMS ==
    <<"Citadel", "Citadel Securities", "Two Sigma", "Renaissance Technologies",
      "DE Shaw", "D. E. Shaw", "Jump Trading", "Jane Street", "Optiver",
      "IMC Trading", "Akuna Capital", "DRW", "Susquehanna International Group",
      "SIG", "Hudson River Trading", "HRT", "Tower Research",
      "Virtu Financial", "Wolverine Trading", "Old Mission", "Five Rings",
      "Radix Trading", "XR Trading", "Quantitative Investment Management",
      "QIM", "Goldman Sachs", "Morgan Stanley", "JP Morgan", "JPMorgan",
      "Bank of America", "Barclays", "Credit Suisse", "UBS", "Deutsche Bank",
      "Citi", "Citigroup", "BlackRock", "Vanguard", "State Street",
      "AQR Capital", "Bridgewater Associates", "Millennium Management",
      "Point72", "Winton Group", "Man Group", "Schonfeld",
      "Chicago Trading Company", "CTC", "Geneva Trading", "Belvedere Trading",
      "Allston Trading", "TransMarket Group", "TMG", "Peak6", "Headlands Tech",
      "Valkyrie Trading", "Citadel Securities", "Virtu Financial",
      "Flow Traders", "GTS", "Global Trading Systems", "XTX Markets",
      "Jump Crypto", "Cumberland", "Wintermute", "GSR", "Galaxy Digital",
      "Paradigm", "Framework Ventures", "FalconX", "B2C2", "Amber Group",
      "QCP Capital", "Kronos Research", "Folkvang", "CMS Holdings",
      "Alameda Research", "Coinbase", "Kraken", "Gemini", "Binance US",
      "Robinhood", "Bloomberg", "FactSet", "Refinitiv">>

TOPIC_KEYWORDS ==
    <<"quantitative", "quant", "trader", "trading", "systematic",
      "algorithmic", "algo", "market maker", "portfolio manager",
      "risk management", "derivatives", "fixed income", "machine learning",
      "ml", "data science", "statistics", "stochastic calculus", "time series",
      "optimization", "high frequency", "hft", "low latency", "equity",
      "options", "futures", "commodities", "forex", "rates", "credit",
      "volatility", "arbitrage", "alpha", "factor models", "crypto",
      "cryptocurrency", "blockchain", "defi", "digital assets",
      "market making", "financial engineering", "computational finance",
      "mathematical finance", "econometrics">>

QUANT_JOB_ROLES ==
    <<"quantitative researcher", "quant researcher", "qr",
      "quantitative trader", "quant trader", "trader",
      "quantitative developer", "quant developer", "quant dev",
      "quantitative analyst", "quant analyst", "research scientist",
      "research engineer", "data scientist", "ml engineer", "machine learning",
      "software engineer - trading", "trading systems", "portfolio manager",
      "portfolio analyst", "risk analyst", "risk manager",
      "derivatives analyst", "derivatives trader", "market maker",
      "systematic trader">>

(***************************************************************************)
(* Text primitives of Python used by the detector                          *)
(***************************************************************************)
UpperCase == "ABCDEFGHIJKLMNOPQRSTUVWXYZ"

LowerCase == "abcdefghijklmnopqrstuvwxyz"

DigitsAndUnderscore == "0123456789_"

CharsOf(s) == {SubSeq(s, i, i) : i \in 1..Len(s)}

\* The lower-case letter of every upper-case letter
ToLower ==
    [c \in CharsOf(UpperCase) |->
        LET i == CHOOSE j \in 1..Len(UpperCase) : SubSeq(UpperCase, j, j) = c
        IN  SubSeq(LowerCase, i, i)]

\* str.lower() of one character
lower_char(c) == IF c \in DOMAIN ToLower THEN ToLower[c] ELSE c

RECURSIVE lower(_)
\* str.lower()
lower(s) == IF s = "" THEN "" ELSE lower_char(Head(s)) \o lower(Tail(s))

\* `k in t` on strings
Contains(k, t) == \E i \in 0..(Len(t) - Len(k)) : SubSeq(t, i + 1, i + Len(k)) = k

\* \w of the re module
WordChars == CharsOf(UpperCase) \cup CharsOf(LowerCase) \cup CharsOf(DigitsAndUnderscore)

IsWordAt(t, q) == q \in 1..Len(t) /\ SubSeq(t, q, q) \in WordChars

\* \b between t[p] and t[p+1]
WordBoundary(t, p) == IsWordAt(t, p) # IsWordAt(t, p + 1)

\* re.compile(r'\b' + re.escape(firm) + r'\b', re.IGNORECASE): the literal
\* name, compared without regard to case, between two word boundaries
compile_pattern(firm) == lower(firm)

\* pattern.search(text)
pattern_search(pattern, text) ==
    LET t == lower(text)
    IN  \E i \in 0..(Len(t) - Len(pattern)) :
            /\ SubSeq(t, i + 1, i + Len(pattern)) = pattern
            /\ WordBoundary(text, i)
            /\ WordBoundary(text, i + Len(pattern))

(***************************************************************************)
(* FirmDetector                                                            *)
(***************************************************************************)
\* A keyword list of the topic terms only
QUANT_KEYWORDS_topics_only == TOPIC_KEYWORDS

\* QUANT_KEYWORDS: the topic terms followed by every firm name lower-cased
QUANT_KEYWORDS == TOPIC_KEYWORDS \o [i \in 1..Len(QUANT_FIRMS) |-> lower(QUANT_FIRMS[i])]

QUANT_THRESHOLD == 2

JOB_THRESHOLD == 3

FIRM_SCORE == 5

KEYWORD_SCORE_CAP == 5

MAX_SCORE == 10

Min2(a, b) == IF a <= b THEN a ELSE b

\* self.firm_patterns
firm_patterns == [i \in 1..Len(QUANT_FIRMS) |-> compile_pattern(QUANT_FIRMS[i])]

\* detect_firm that reports a name once however often the registry lists it
detect_firm_distinct(text) ==
    LET matched == SelectSeq([i \in 1..Len(QUANT_FIRMS) |-> i],
                             LAMBDA i : /\ pattern_search(firm_patterns[i], text)
                                        /\ \A j \in 1..(i - 1) : QUANT_FIRMS[j] # QUANT_FIRMS[i])
    IN  [j \in 1..Len(matched) |-> QUANT_FIRMS[matched[j]]]

\* detect_firm(text): the registry names whose pattern matches, in registry order
\* [firm for firm, pattern in zip(firms, firm_patterns) if pattern.search(text)]
detect_firm(text) ==
    LET matched == SelectSeq([i \in 1..Len(QUANT_FIRMS) |-> i],
                             LAMBDA i : pattern_search(firm_patterns[i], text))
    IN  [j \in 1..Len(matched) |-> QUANT_FIRMS[matched[j]]]

RECURSIVE count_keywords(_, _, _, _)
\* sum(1 for keyword in keywords[lo..hi] if keyword in text_lower)
count_keywords(keywords, lo, hi, text_lower) ==
    IF lo > hi THEN 0
    ELSE IF lo = hi THEN (IF Contains(keywords[lo], text_lower) THEN 1 ELSE 0)
    ELSE LET mid == (lo + hi) \div 2
         IN  count_keywords(keywords, lo, mid, text_lower)
             + count_keywords(keywords, mid + 1, hi, text_lower)

\* is_quant_related(text, threshold) -> (matches >= threshold, matches)
is_quant_related(text, threshold) ==
    LET matches == count_keywords(QUANT_KEYWORDS, 1, Len(QUANT_KEYWORDS), lower(text))
    IN  [related |-> matches >= threshold, matches |-> matches]

RECURSIVE any_role(_, _)
\* for role in job_roles: if role.lower() in combined_text: return True
any_role(roles, combined_text) ==
    IF roles = <<>> THEN FALSE
    ELSE IF Contains(lower(Head(roles)), combined_text) THEN TRUE
    ELSE any_role(Tail(roles), combined_text)

\* is_relevant_job with the default threshold of is_quant_related
is_relevant_job_default_threshold(job_title, job_description) ==
    LET combined_text == lower(job_title \o " " \o job_description)
    IN  IF any_role(QUANT_JOB_ROLES, combined_text) THEN TRUE
        ELSE is_quant_related(combined_text, QUANT_THRESHOLD).related

\* is_relevant_job(job_title, job_description)
is_relevant_job(job_title, job_description) ==
    LET combined_text == lower(job_title \o " " \o job_description)
    IN  IF any_role(QUANT_JOB_ROLES, combined_text) THEN TRUE
        ELSE is_quant_related(combined_text, JOB_THRESHOLD).related

\* extract_firm_name(text): the first detected firm or None
extract_firm_name(text) ==
    LET firms == detect_firm(text)
    IN  IF firms # <<>> THEN firms[1] ELSE NULL

\* score_event_relevance that looks for firm names as plain substrings
score_event_relevance_substring(title, description) ==
    LET combined == title \o " " \o description
        firm_score == IF \E i \in 1..Len(QUANT_FIRMS) : Contains(lower(QUANT_FIRMS[i]), lower(combined))
                          THEN FIRM_SCORE ELSE 0
        keyword_count == is_quant_related(combined, 0).matches
    IN  Min2(firm_score + Min2(keyword_count, KEYWORD_SCORE_CAP), MAX_SCORE)

\* score_event_relevance that counts every keyword three times
score_event_relevance_weighted(title, description) ==
    LET combined == title \o " " \o description
        firm_score == IF detect_firm(combined) # <<>> THEN FIRM_SCORE ELSE 0
        keyword_count == is_quant_related(combined, 0).matches
    IN  Min2(firm_score + Min2(3 * keyword_count, KEYWORD_SCORE_CAP), MAX_SCORE)

\* score_event_relevance(title, description)
score_event_relevance(title, description) ==
    LET combined == title \o " " \o description
        firm_score == IF detect_firm(combined) # <<>> THEN FIRM_SCORE ELSE 0
        keyword_count == is_quant_related(combined, 0).matches
    IN  Min2(firm_score + Min2(keyword_count, KEYWORD_SCORE_CAP), MAX_SCORE)

registration_keywords ==
    <<"register", "registration", "rsvp", "sign up", "signup", "reserve", "reservation">>

\* requires_registration that compares without lower-casing the text
requires_registration_case_sensitive(text) ==
    \E i \in 1..Len(registration_keywords) : Contains(registration_keywords[i], text)

\* requires_registration(text)
requires_registration(text) ==
    LET text_lower == lower(text)
    IN  \E i \in 1..Len(registration_keywords) : Contains(registration_keywords[i], text_lower)

(***************************************************************************)
(* Detector calls on bounded texts                                         *)
(***************************************************************************)
MaxWords == 2

TitleWords == {"Citadel", "Securities", "Citizens", "TRADING", "Trader", "Seminar", "RSVP"}

FixedTexts ==
    {"RSVP required for this event", "Open to all, no signup needed",
     "Optiver and Citadel Securities"}

Descriptions == {"", "quantitative trading", "Open to all, no signup needed"}

RECURSIVE JoinWords(_)
\* " ".join(words)
JoinWords(words) ==
    IF words = <<>> THEN ""
    ELSE IF Len(words) = 1 THEN words[1]
    ELSE words[1] \o " " \o JoinWords(Tail(words))

TitleTexts ==
    {JoinWords(w) : w \in UNION {[1..n -> TitleWords] : n \in 0..MaxWords}} \cup FixedTexts

InitDetector ==
    /\ db = EmptyDb
    /\ files = NoFiles
    /\ digests = <<>>
    /\ pre = db
    /\ last = NoCall
    /\ run = NoRun
    /\ \E t \in TitleTexts, d \in Descriptions :
           det = [NoDetection EXCEPT !.title = t, !.description = d]

Detect(op, result) ==
    /\ det' = [det EXCEPT !.op = op, !.result = result]
    /\ UNCHANGED <<db, files, digests, pre, last, run>>

ScoreEventRelevance ==
    Detect("score_event_relevance", score_event_relevance(det.title, det.description))

IsRelevantJob == Detect("is_relevant_job", is_relevant_job(det.title, det.description))

RequiresRegistration == Detect("requires_registration", requires_registration(det.title))

DetectFirm == Detect("detect_firm", detect_firm(det.title \o " " \o det.description))

ExtractFirmName ==
    Detect("extract_firm_name", extract_firm_name(det.title \o " " \o det.description))

NextDetector ==
    \/ ScoreEventRelevance
    \/ IsRelevantJob
    \/ RequiresRegistration
    \/ DetectFirm
    \/ ExtractFirmName

SpecDetector == InitDetector /\ [][NextDetector]_vars

(***************************************************************************)
(* Report classification (report_scraper.py)                               *)
(***************************************************************************)
\* The keyword lists of _classify_report_type, in the order of its if/elif chain
REPORT_TYPE_KEYWORDS ==
    <<[type |-> "quarterly", keywords |-> <<"quarterly", "10-q", "q1", "q2", "q3", "q4">>],
      [type |-> "annual", keywords |-> <<"annual", "10-k", "yearly">>],
      [type |-> "fund_offering", keywords |-> <<"fund", "offering", "prospectus">>],
      [type |-> "holdings", keywords |-> <<"13f", "holdings">>],
      [type |-> "presentation", keywords |-> <<"presentation">>]>>

\* any(kw in combined for kw in keywords)
any_keyword(keywords, combined) ==
    \E i \in 1..Len(keywords) : Contains(keywords[i], combined)

RECURSIVE classify_from(_, _)
\* the if/elif chain from its i-th test on
classify_from(i, combined) ==
    IF i > Len(REPORT_TYPE_KEYWORDS) THEN "other"
    ELSE IF any_keyword(REPORT_TYPE_KEYWORDS[i].keywords, combined)
    THEN REPORT_TYPE_KEYWORDS[i].type
    ELSE classify_from(i + 1, combined)

\* _classify_report_type that tests the annual keywords first
_classify_report_type_annual_first(text, href) ==
    LET combined == lower(text \o " " \o href)
    IN  IF any_keyword(REPORT_TYPE_KEYWORDS[2].keywords, combined) THEN "annual"
        ELSE classify_from(1, combined)

\* _classify_report_type(text, href)
_classify_report_type(text, href) == classify_from(1, lower(text \o " " \o href))

ReportWords == {"Quarterly", "Annual", "Fund", "Holdings", "Presentation", "Letter"}

LinkTexts == {JoinWords(w) : w \in UNION {[1..n -> ReportWords] : n \in 0..MaxWords}}

LinkHrefs == {"", "/docs/10-K.pdf", "/investors/q3-2024"}

InitClassify ==
    /\ db = EmptyDb
    /\ files = NoFiles
    /\ digests = <<>>
    /\ pre = db
    /\ last = NoCall
    /\ run = NoRun
    /\ \E t \in LinkTexts, h \in LinkHrefs :
           det = [NoDetection EXCEPT !.title = t, !.description = h]

ClassifyReportType ==
    Detect("_classify_report_type", _classify_report_type(det.title, det.description))

NextClassify == ClassifyReportType

SpecClassify == InitClassify /\ [][NextClassify]_vars

(***************************************************************************)
(* Event and job extractors (event_scraper.py, job_scraper.py)             *)
(***************************************************************************)
RELEVANCE_THRESHOLD == 3

GENERIC_FIRM == "Quantitative Finance Firm"

MaxCandidates == 1

\* Events an events page or a feed can hold: nothing relevant, a firm's
\* event, a relevant event that names no firm.
EventCandidates ==
    {[title |-> "Seminar", description |-> ""],
     [title |-> "Citadel Trader", description |-> ""],
     [title |-> "Seminar", description |-> "quantitative trading"]}

\* Job links a careers page can hold: a relevant posting, one that is not
\* relevant, one without a url.
JobCandidates ==
    {[title |-> "Trader", description |-> "", url |-> "u1"],
     [title |-> "Seminar", description |-> "", url |-> "u1"],
     [title |-> "Trader", description |-> "", url |-> ""]}

\* The three detector calls of _process_event on one event (lines 224, 229,
\* 232) and the one of _process_job on one job (line 222), for every
\* candidate of the given sets.
detector_answers(events, jobs) ==
    [events |-> [event \in events |->
                   LET text == event.title \o " " \o event.description
                   IN  [score |-> score_event_relevance(event.title, event.description),
                        firm_name |-> extract_firm_name(text),
                        quant_related |-> is_quant_related(text, QUANT_THRESHOLD).related]],
     jobs |-> [job \in jobs |-> is_relevant_job(job.title, job.description)]]

\* What the detector answers on the candidates of a run.  A run computes it
\* once and keeps it in det.result.
DetectorAnswers == detector_answers(EventCandidates, JobCandidates)

\* _process_event that files every accepted event under the placeholder
event_firm_name_placeholder(answer) ==
    IF answer.score < RELEVANCE_THRESHOLD THEN NULL
    ELSE IF answer.firm_name = NULL /\ ~answer.quant_related THEN NULL
    ELSE GENERIC_FIRM

\* _process_event, lines 224-235: the firm an event is stored under, or NULL
\* when the event is dropped, from the detector's answers on the event
event_firm_name(answer) ==
    IF answer.score < RELEVANCE_THRESHOLD THEN NULL
    ELSE IF answer.firm_name # NULL THEN answer.firm_name
    ELSE IF answer.quant_related THEN GENERIC_FIRM
    ELSE NULL

\* _process_event(event, source_name)
_process_event(d, event) ==
    LET firm_name == event_firm_name(det.result.events[event])
        out == add_event(d, firm_name, event.title, "d1")
    IN  IF firm_name = NULL THEN [db |-> d, res |-> ReturnBool(FALSE)]
        ELSE IF out.res.kind = "raised" THEN out
        ELSE [db |-> out.db, res |-> ReturnBool(out.res.kind # "none")]

\* _process_job without the url test
_process_job_any_url(d, job, firm_name) ==
    LET out == add_job_posting(d, firm_name, job.title, job.url)
    IN  IF ~det.result.jobs[job] THEN [db |-> d, res |-> ReturnBool(FALSE)]
        ELSE IF out.res.kind = "raised" THEN out
        ELSE [db |-> out.db, res |-> ReturnBool(out.res.kind # "none")]

\* _process_job(job, firm_name)
_process_job(d, job, firm_name) ==
    LET out == add_job_posting(d, firm_name, job.title, job.url)
    IN  IF job.url = "" THEN [db |-> d, res |-> ReturnBool(FALSE)]
        ELSE IF ~det.result.jobs[job] THEN [db |-> d, res |-> ReturnBool(FALSE)]
        ELSE IF out.res.kind = "raised" THEN out
        ELSE [db |-> out.db, res |-> ReturnBool(out.res.kind # "none")]

RECURSIVE process_events(_, _, _)
\* for event in events: if self._process_event(event, source_name): relevant_count += 1
process_events(d, events, relevant_count) ==
    IF events = <<>> THEN [db |-> d, raised |-> FALSE, count |-> relevant_count]
    ELSE LET out == _process_event(d, Head(events))
         IN  IF out.res.kind = "raised"
             THEN [db |-> out.db, raised |-> TRUE, count |-> relevant_count]
             ELSE process_events(out.db, Tail(events),
                                 relevant_count + (IF out.res.flag THEN 1 ELSE 0))

RECURSIVE process_jobs(_, _, _, _)
\* for job in jobs: if self._process_job(job, firm_name): relevant_count += 1
process_jobs(d, jobs, firm_name, relevant_count) ==
    IF jobs = <<>> THEN [db |-> d, raised |-> FALSE, count |-> relevant_count]
    ELSE LET out == _process_job(d, Head(jobs), firm_name)
         IN  IF out.res.kind = "raised"
             THEN [db |-> out.db, raised |-> TRUE, count |-> relevant_count]
             ELSE process_jobs(out.db, Tail(jobs), firm_name,
                               relevant_count + (IF out.res.flag THEN 1 ELSE 0))

(***************************************************************************)
(* Extractor calls on bounded candidates                                   *)
(***************************************************************************)
ExtractWords == {"Citadel", "Citizens", "TRADING", "Trader", "Seminar"}

ExtractTitles == {JoinWords(w) : w \in UNION {[1..n -> ExtractWords] : n \in 0..MaxWords}}

\* The dictionaries _extract_event_from_container / _extract_job_from_container
\* hand to the process step
ExtractEvents == [title : ExtractTitles, description : Descriptions]

ExtractJobs == [title : ExtractTitles, description : Descriptions, url : {"", "u1"}]

ExtractDbs ==
    {EmptyDb,
     [EmptyDb EXCEPT !.firms = {Firm(1, "Citadel", NULL)},
                     !.jobs = {JobPosting(1, 1, "Trader", "u1", FALSE)}]}

InitExtract ==
    /\ det = [NoDetection EXCEPT !.op = "candidates",
                                 !.result = detector_answers(ExtractEvents, ExtractJobs)]
    /\ db \in ExtractDbs
    /\ files = NoFiles
    /\ digests = <<>>
    /\ pre = db
    /\ last = NoCall
    /\ run = NoRun

ExtractCall(out, candidate, call) ==
    /\ pre' = db
    /\ db' = out.db
    /\ last' = [call EXCEPT !.res = out.res]
    /\ det' = [det EXCEPT !.title = candidate.title, !.description = candidate.description]
    /\ UNCHANGED <<files, digests, run>>

ProcessEvent(event) ==
    ExtractCall(_process_event(db, event), event,
                Call("_process_event", "", event.title, "", "", "", 0, "", ReturnVoid))

ProcessJob(job, firm_name) ==
    ExtractCall(_process_job(db, job, firm_name), job,
                Call("_process_job", firm_name, job.title, job.url, "", "", 0, "", ReturnVoid))

NextExtract ==
    \/ \E event \in ExtractEvents : ProcessEvent(event)
    \/ \E job \in ExtractJobs : ProcessJob(job, "Citadel")

SpecExtract == InitExtract /\ [][NextExtract]_vars

\* What an entry point hands back: the store, the returned count, whether an
\* exception left the entry point, and the number of fetches it made.
Scraped(d, count, raised) == [db |-> d, count |-> count, raised |-> raised, attempts |-> 1]

\* scrape_generic_events_page without its except clause
scrape_generic_events_page_unhandled(d, source_name, fetch_ok, events) ==
    LET loop == process_events(d, events, 0)
    IN  IF fetch_ok /\ ~loop.raised
        THEN Scraped(log_scrape(loop.db, source_name, "event", TRUE).db, loop.count, FALSE)
        ELSE Scraped(IF fetch_ok THEN loop.db ELSE d, 0, TRUE)

\* scrape_generic_events_page(url, source_name): fetch_ok is whether
\* session.get / raise_for_status / the parse went through, events what
\* _extract_events_from_html yields
scrape_generic_events_page(d, source_name, fetch_ok, events) ==
    LET loop == process_events(d, events, 0)
    IN  IF fetch_ok /\ ~loop.raised
        THEN Scraped(log_scrape(loop.db, source_name, "event", TRUE).db, loop.count, FALSE)
        ELSE Scraped(log_scrape(IF fetch_ok THEN loop.db ELSE d, source_name, "event", FALSE).db,
                     0, FALSE)

\* feedparser.parse(feed_url): a feed that cannot be fetched or parsed is
\* returned with no entries (bozo set); nothing is raised
feedparser_parse(fetch_ok, entries) == IF fetch_ok THEN entries ELSE <<>>

\* scrape_rss_feed(feed_url, source_name)
scrape_rss_feed(d, source_name, fetch_ok, entries) ==
    LET loop == process_events(d, feedparser_parse(fetch_ok, entries), 0)
    IN  IF ~loop.raised
        THEN Scraped(log_scrape(loop.db, source_name, "event", TRUE).db, loop.count, FALSE)
        ELSE Scraped(log_scrape(loop.db, source_name, "event", FALSE).db, 0, FALSE)

\* scrape_firm_jobs(firm_name, careers_url)
scrape_firm_jobs(d, firm_name, fetch_ok, jobs) ==
    LET loop == process_jobs(d, jobs, firm_name, 0)
    IN  IF fetch_ok /\ ~loop.raised
        THEN Scraped(log_scrape(loop.db, firm_name, "job", TRUE).db, loop.count, FALSE)
        ELSE Scraped(log_scrape(IF fetch_ok THEN loop.db ELSE d, firm_name, "job", FALSE).db,
                     0, FALSE)

\* get_firms_with_events(): the firms joined with events, each expunged
get_firms_with_events(d) ==
    LET hosts == SelectSeq(AllRows(d.firms), LAMBDA f : \E e \in d.events : e.firm_id = f.id)
    IN  [db |-> d,
         res |-> ReturnList([i \in 1..Len(hosts) |->
                                session_exit(expunge(query_result("firms", hosts[i].id)))])]

\* firm.careers_url: the model keeps one optional attribute per firm, the
\* keyword arguments given when the firm was created
careers_url(f) == f.website

(***************************************************************************)
(* MonitoringJob.run (job_runner.py)                                       *)
(***************************************************************************)
MaxCampusSources == 1

MaxTrackedFirms == 1

MaxConfigSources == 1

\* The names of CAMPUS_EVENT_SOURCES, in dictionary order; each has a url and no rss
CAMPUS_EVENT_SOURCES == <<"MIT CSAIL", "Stanford CS", "CMU CS", "Berkeley EECS", "Princeton CS">>

\* The first names of FIRM_CAREERS_URLS, in dictionary order
FIRM_CAREERS_URLS == <<"Citadel", "Two Sigma", "Jane Street", "Jump Trading", "DE Shaw">>

Source(name, kind) == [name |-> name, kind |-> kind]

\* Entries of config['event_sources']: with an rss, with a url only, with neither
ConfigSources == {Source("Feed", "rss"), Source("Page", "url"), Source("Bare", "none")}

Configs ==
    [event_sources : SeqsUpTo(ConfigSources, MaxConfigSources),
     scrape_known_firms : BOOLEAN, scrape_event_firms : BOOLEAN]

\* _scrape_events: the campus sources, then the configured ones
event_queue(config) ==
    [i \in 1..MaxCampusSources |-> Source(CAMPUS_EVENT_SOURCES[i], "url")] \o config.event_sources

\* scrape_all_tracked_firms: every firm of FIRM_CAREERS_URLS
tracked_queue(config) ==
    IF config.scrape_known_firms
    THEN [i \in 1..MaxTrackedFirms |-> Source(FIRM_CAREERS_URLS[i], "url")]
    ELSE <<>>

\* scrape_firms_with_events: the firms with events that have a careers_url
event_firm_queue(config, d) ==
    LET firms == get_firms_with_events(d).res.objs
        rows == [i \in 1..Len(firms) |-> RowById(d.firms, firms[i].id)]
        with_url == SelectSeq(rows, LAMBDA f : careers_url(f) # NULL)
    IN  IF config.scrape_event_firms
        THEN [i \in 1..Len(with_url) |-> Source(with_url[i].name, "url")]
        ELSE <<>>

\* run() with _scrape_jobs called before _scrape_events
next_phase_jobs_first(pc) ==
    CASE pc = "idle" -> "known_firms"
      [] pc = "known_firms" -> "event_firms"
      [] pc = "event_firms" -> "events"
      [] pc = "events" -> "notify"
      [] OTHER -> "idle"

\* The order of run(): _scrape_events, _scrape_jobs (tracked firms, then
\* firms with events), notify_new_items
next_phase(pc) ==
    CASE pc = "idle" -> "events"
      [] pc = "events" -> "known_firms"
      [] pc = "known_firms" -> "event_firms"
      [] pc = "event_firms" -> "notify"
      [] OTHER -> "idle"

phase_queue(pc, config, d) ==
    CASE pc = "events" -> event_queue(config)
      [] pc = "known_firms" -> tracked_queue(config)
      [] pc = "event_firms" -> event_firm_queue(config, d)
      [] OTHER -> <<>>

\* run(): `except Exception` logs whatever the try block raised
run_outcome(raised) == "returned"

ScrapeCall(op, name, fetch_ok, out) ==
    [op |-> op, name |-> name, fetch_ok |-> fetch_ok, count |-> out.count,
     raised |-> out.raised, attempts |-> out.attempts]

Invocation(phase, name) == [phase |-> phase, name |-> name]

\* The position, among the invocations of the run, of the first one whose
\* fetch failed (0: none so far)
FirstFailed(r, fetch_ok) ==
    IF r.first_failed = 0 /\ ~fetch_ok THEN Len(r.calls) + 1 ELSE r.first_failed

\* The database a run starts on: no firm, Citadel, or Citadel and Optiver;
\* the firms with or without a careers_url; none, the first or every firm
\* with an event; with or without the job posting u1
RunFirms == {<<>>, <<"Citadel">>, <<"Citadel", "Optiver">>}

RunDbs ==
    {[EmptyDb EXCEPT
        !.firms = {Firm(i, s[i], w) : i \in 1..Len(s)},
        !.events = {Event(i, h[i], "Talk", "d1", FALSE) : i \in 1..Len(h)},
        !.jobs = IF job /\ s # <<>> THEN {JobPosting(1, 1, "Trader", "u1", FALSE)} ELSE {}] :
        s \in RunFirms, w \in Websites, h \in {<<>>, <<1>>, <<1, 2>>}, job \in BOOLEAN}

InitRun ==
    /\ det = [NoDetection EXCEPT !.op = "candidates", !.result = DetectorAnswers]
    /\ db \in {d \in RunDbs : \A e \in d.events : \E f \in d.firms : f.id = e.firm_id}
    /\ files = NoFiles
    /\ digests = <<>>
    /\ pre = db
    /\ last = NoCall
    /\ \E c \in Configs : run = [NoRun EXCEPT !.config = c]

\* run() is entered
RunStart ==
    /\ run.pc = "idle"
    /\ run.result = ""
    /\ run' = [run EXCEPT !.pc = next_phase("idle"),
                          !.queue = phase_queue(next_phase("idle"), run.config, db)]
    /\ UNCHANGED <<db, files, digests, pre, last, det>>

\* One extractor invocation made by run(): out is what the entry point did
Scrape(op, phase, fetch_ok, out) ==
    LET item == Head(run.queue)
    IN  /\ pre' = db
        /\ db' = out.db
        /\ last' = ScrapeCall(op, item.name, fetch_ok, out)
        /\ run' = IF out.raised
                  THEN [run EXCEPT !.pc = "idle", !.queue = <<>>,
                                   !.calls = Append(@, Invocation(phase, item.name)),
                                   !.first_failed = FirstFailed(run, fetch_ok),
                                   !.result = run_outcome(TRUE)]
                  ELSE [run EXCEPT !.queue = Tail(@), !.total = @ + out.count,
                                   !.calls = Append(@, Invocation(phase, item.name)),
                                   !.first_failed = FirstFailed(run, fetch_ok)]
        /\ UNCHANGED <<files, digests, det>>

\* _scrape_events: a source with a url and no rss
ScrapeEventsPage ==
    /\ run.pc = "events" /\ run.queue # <<>> /\ Head(run.queue).kind = "url"
    /\ \E fetch_ok \in BOOLEAN, events \in SeqsUpTo(EventCandidates, MaxCandidates) :
          Scrape("scrape_generic_events_page", "events", fetch_ok,
                 scrape_generic_events_page(db, Head(run.queue).name, fetch_ok, events))

\* _scrape_events: a source with an rss
ScrapeRssFeed ==
    /\ run.pc = "events" /\ run.queue # <<>> /\ Head(run.queue).kind = "rss"
    /\ \E fetch_ok \in BOOLEAN, entries \in SeqsUpTo(EventCandidates, MaxCandidates) :
          Scrape("scrape_rss_feed", "events", fetch_ok,
                 scrape_rss_feed(db, Head(run.queue).name, fetch_ok, entries))

\* _scrape_events: a source with neither (continue)
SkipEventSource ==
    /\ run.pc = "events" /\ run.queue # <<>> /\ Head(run.queue).kind = "none"
    /\ run' = [run EXCEPT !.queue = Tail(@)]
    /\ UNCHANGED <<db, files, digests, pre, last, det>>

\* scrape_all_tracked_firms / scrape_firms_with_events: one firm's careers page
ScrapeFirmJobs ==
    /\ run.pc \in {"known_firms", "event_firms"} /\ run.queue # <<>>
    /\ \E fetch_ok \in BOOLEAN, jobs \in SeqsUpTo(JobCandidates, MaxCandidates) :
          Scrape("scrape_firm_jobs", run.pc, fetch_ok,
                 scrape_firm_jobs(db, Head(run.queue).name, fetch_ok, jobs))

\* A loop of run() is exhausted: control reaches the next one
PhaseDone ==
    /\ run.pc \in {"events", "known_firms", "event_firms"} /\ run.queue = <<>>
    /\ run' = [run EXCEPT !.pc = next_phase(run.pc),
                          !.queue = phase_queue(next_phase(run.pc), run.config, db)]
    /\ UNCHANGED <<db, files, digests, pre, last, det>>

\* self.notifier.notify_new_items(), then run() returns
RunNotify ==
    /\ run.pc = "notify"
    /\ LET out == notify_new_items(db, digests, "console")
           after == next_phase("notify")
           ended == out.res.kind = "raised" \/ after = "idle"
       IN  /\ pre' = db
           /\ db' = out.db
           /\ digests' = out.digests
           /\ last' = Call("notify_new_items", "", "", "", "", "", 0, "console", out.res)
           /\ run' = [run EXCEPT
                         !.pc = IF ended THEN "idle" ELSE after,
                         !.queue = IF ended THEN <<>> ELSE phase_queue(after, run.config, out.db),
                         !.calls = Append(@, Invocation("notify", "")),
                         !.notify_calls = @ + 1,
                         !.result = IF ended THEN run_outcome(out.res.kind = "raised") ELSE @]
    /\ UNCHANGED <<files, det>>

NextRun ==
    \/ RunStart
    \/ ScrapeEventsPage
    \/ ScrapeRssFeed
    \/ SkipEventSource
    \/ ScrapeFirmJobs
    \/ PhaseDone
    \/ RunNotify

SpecRun == InitRun /\ [][NextRun]_vars

(***************************************************************************)
(* Properties                                                              *)
(***************************************************************************)
UnnotifiedCount(rows) == Cardinality({r \in rows : ~r.notified})

DuplicateEvent ==
    \E e \in pre.events, f \in pre.firms :
        f.id = e.firm_id /\ f.name = last.firm /\ e.title = last.title

DuplicateJobUrl == \E j \in pre.jobs : j.job_url = last.url

ContentTablesNames == {"events", "jobs", "blogs", "reports", "videos"}

\* C1: one call of notify_new_items on a store holding N unnotified events
\* and M unnotified jobs returns the summary events_notified = N,
\* jobs_notified = M, total_notifications = N + M, and afterwards both
\* unnotified queries return the empty list.
C1_NotifyDrainsAndCounts ==
    last.op = "notify_new_items" =>
        /\ last.res.kind = "summary"
        /\ last.res.summary.events_notified = UnnotifiedCount(pre.events)
        /\ last.res.summary.jobs_notified = UnnotifiedCount(pre.jobs)
        /\ last.res.summary.total_notifications =
               UnnotifiedCount(pre.events) + UnnotifiedCount(pre.jobs)
        /\ get_unnotified_events(db).res.objs = <<>>
        /\ get_unnotified_jobs(db).res.objs = <<>>

\* C3: a content record is created with notified = false; its flag changes
\* only from false to true and only by the mark-notified step; a true flag is
\* never set back to false.
C3_NotifiedOnlyRises ==
    \A t \in ContentTablesNames : \A r \in db[t] :
        IF \E p \in pre[t] : p.id = r.id
        THEN LET p == CHOOSE q \in pre[t] : q.id = r.id
             IN  p.notified # r.notified =>
                    /\ ~p.notified
                    /\ r.notified
                    /\ last.op \in {"mark_event_notified", "mark_job_notified",
                                    "notify_new_items"}
        ELSE ~r.notified

C3_Witness ==
    /\ last.op = "mark_event_notified"
    /\ \E r \in db.events, p \in pre.events :
          p.id = r.id /\ r.id = last.id /\ ~p.notified /\ r.notified

\* C4: add_job_posting with a job_url already in the store returns none and
\* leaves the number of JobPosting rows unchanged, whatever the firm name and
\* title; no two JobPosting rows share a job_url.
C4_DuplicateJobUrlRejected ==
    /\ (last.op = "add_job_posting" /\ DuplicateJobUrl) =>
          /\ last.res.kind = "none"
          /\ Cardinality(db.jobs) = Cardinality(pre.jobs)
    /\ \A a, b \in db.jobs : a.job_url = b.job_url => a = b

C4_Witness ==
    /\ last.op = "add_job_posting"
    /\ last.res.kind = "none"
    /\ \E j \in pre.jobs, f \in pre.firms :
          /\ j.job_url = last.url
          /\ f.id = j.firm_id
          /\ f.name # last.firm
          /\ j.title # last.title

\* C5: add_event with a (firm, title) pair already stored returns none and
\* creates no row even when the date differs; add_event with a stored title
\* under a different firm returns a new record and adds one Event row.
C5_EventIdentityIsFirmAndTitle ==
    last.op = "add_event" =>
        /\ DuplicateEvent =>
              last.res.kind = "none" /\ db.events = pre.events
        /\ (~DuplicateEvent /\ \E e \in pre.events : e.title = last.title) =>
              /\ last.res.kind = "record"
              /\ Cardinality(db.events) = Cardinality(pre.events) + 1

C7_DuplicateInsertIsNoOp ==
    ((last.op = "add_event" /\ DuplicateEvent) \/
     (last.op = "add_job_posting" /\ DuplicateJobUrl)) =>
        last.res.kind = "none" /\ db = pre

\* C8: add_event and add_job_posting are atomic: when the call ends in an
\* error the store is exactly as before the call, no Firm row created during
\* the call remains.
C8_FailedWriteLeavesStoreUntouched ==
    (last.op \in {"add_event", "add_job_posting"} /\ last.res.kind = "raised") =>
        db = pre

\* C9: get_or_create_firm is idempotent: after a call with a name exactly one
\* Firm row has that name, the returned record carries that row's id, and a
\* call for an existing name changes no attribute of any Firm row.
C9_GetOrCreateFirmIdempotent ==
    last.op = "get_or_create_firm" =>
        /\ Cardinality({f \in db.firms : f.name = last.firm}) = 1
        /\ Len(last.res.objs) = 1
        /\ readable_column(last.res.objs[1])
        /\ \E f \in db.firms : f.name = last.firm /\ f.id = last.res.objs[1].id
        /\ (\E f \in pre.firms : f.name = last.firm) => db.firms = pre.firms

\* C10: every record the store returns for use after its transaction has
\* closed is fully loaded: its columns (the id among them) and, for content
\* records, the owning firm read through record.firm.name are readable
\* without the closed session.
C10_ReturnedRecordsFullyLoaded ==
    last.op \in {"get_or_create_firm", "add_event", "add_job_posting",
                 "get_unnotified_events", "get_unnotified_jobs"} =>
        \A i \in 1..Len(last.res.objs) :
            /\ readable_column(last.res.objs[i])
            /\ last.res.objs[i].table \in {"events", "job_postings"} =>
                  readable_relationship(last.res.objs[i])

\* C11: with email enabled, whatever the send step does (message sent, SMTP
\* error, configuration incomplete), the notifier does not raise and every
\* record drained for a content type is marked notified afterwards.
C11_EmailOutcomeNeverBlocksMarking ==
    (last.op = "notify_new_items" /\ last.channel \in {"sent", "smtp_error", "incomplete"}) =>
        /\ last.res.kind # "raised"
        /\ \A p \in pre.events : \E r \in db.events : r.id = p.id /\ r.notified
        /\ \A p \in pre.jobs : \E r \in db.jobs : r.id = p.id /\ r.notified

\* A record of table t whose flag turned true in the last call.
FlagRose(t, r) == r.notified /\ \E p \in pre[t] : p.id = r.id /\ ~p.notified

Announced(kind, id) == \E i \in 1..Len(digests) : digests[i].kind = kind /\ id \in digests[i].ids

\* C12 (as stated): a record whose notified flag became true has been
\* announced through the delivery channel (a printed or sent digest) before.
C12_NotifiedImpliesAnnounced ==
    \A t \in {"events", "jobs"} : \A r \in db[t] : FlagRose(t, r) => Announced(t, r.id)

\* C12 (amended): a record whose notified flag became true was the argument of
\* the mark-notified call of its table (or was drained by notify_new_items);
\* the flag says that the mark step ran, not that a digest was delivered.
C12_NotifiedMeansMarked ==
    /\ \A r \in db.events : FlagRose("events", r) =>
          \/ last.op = "mark_event_notified" /\ last.id = r.id
          \/ last.op = "notify_new_items"
    /\ \A r \in db.jobs : FlagRose("jobs", r) =>
          \/ last.op = "mark_job_notified" /\ last.id = r.id
          \/ last.op = "notify_new_items"

C12_Witness ==
    /\ last.op = "mark_job_notified"
    /\ \E r \in db.jobs : r.id = last.id /\ FlagRose("jobs", r)
    /\ digests = <<>>

DetectorText == det.title \o " " \o det.description

\* The number of registry keywords (entries of the keyword list) occurring in the lower-cased text.
KeywordsOccurring(text) ==
    Cardinality({i \in 1..Len(QUANT_KEYWORDS) : Contains(QUANT_KEYWORDS[i], lower(text))})

FirmDetected(text) == \E i \in 1..Len(QUANT_FIRMS) : pattern_search(firm_patterns[i], text)

\* C17: score_event_relevance(title, description) is
\* min(10, (5 if a registry firm is detected in 'title description' else 0) + min(k, 5)),
\* k the number of registry keywords that are substrings of the lower-cased
\* text, and it is an integer in 0..10.
C17_ScoreFormula ==
    det.op = "score_event_relevance" =>
        LET k == KeywordsOccurring(DetectorText)
            bonus == IF FirmDetected(DetectorText) THEN 5 ELSE 0
        IN  /\ det.result \in 0..10
            /\ det.result = Min2(10, bonus + Min2(k, 5))

C17_Witness ==
    /\ det.op = "score_event_relevance"
    /\ det.title = "Citadel Securities"
    /\ det.description = "quantitative trading"
    /\ det.result = 10

\* C18: is_relevant_job(title, description) is true exactly when a job-role
\* phrase is a substring of the lower-cased 'title description' or at least
\* 3 registry keywords are substrings of it.
C18_RelevantJobIffRoleOrThreeKeywords ==
    det.op = "is_relevant_job" =>
        (det.result <=>
            \/ \E i \in 1..Len(QUANT_JOB_ROLES) : Contains(QUANT_JOB_ROLES[i], lower(DetectorText))
            \/ KeywordsOccurring(DetectorText) >= 3)

C18_Witness ==
    /\ det.op = "is_relevant_job"
    /\ det.title = "Citadel Securities"
    /\ det.description = ""
    /\ det.result = TRUE
    /\ ~ \E i \in 1..Len(QUANT_JOB_ROLES) : Contains(QUANT_JOB_ROLES[i], lower(DetectorText))

SevenPhrases == {"register", "registration", "rsvp", "sign up", "signup", "reserve", "reservation"}

C20_RsvpTrueNoSignupFalse ==
    det.op = "requires_registration" =>
        /\ det.title = "RSVP required for this event" => det.result = TRUE
        /\ det.title = "Open to all, no signup needed" => det.result = FALSE

PhaseRank(phase) ==
    CASE phase = "events" -> 1
      [] phase = "known_firms" -> 2
      [] phase = "event_firms" -> 3
      [] phase = "notify" -> 4

\* C13: within one run the extractor invocations follow the fixed order
\* (every event source, then the tracked firms' job pages, then the job pages
\* of the firms with events), notify_new_items is invoked only after the last
\* extractor invocation of the run, and at most once.
C13_RunOrder ==
    /\ \A i, j \in 1..Len(run.calls) :
          i < j => PhaseRank(run.calls[i].phase) <= PhaseRank(run.calls[j].phase)
    /\ Cardinality({i \in 1..Len(run.calls) : run.calls[i].phase = "notify"}) <= 1
    /\ run.notify_calls <= 1
    /\ run.pc = "notify" => run.notify_calls = 0

C13_Witness ==
    /\ run.result = "returned"
    /\ \A p \in {"events", "known_firms", "event_firms", "notify"} :
          \E i \in 1..Len(run.calls) : run.calls[i].phase = p

ScrapeOps == {"scrape_generic_events_page", "scrape_rss_feed", "scrape_firm_jobs"}

ScrapeType(op) == IF op = "scrape_firm_jobs" THEN "job" ELSE "event"

\* C14: when the fetch or parse of a source fails inside
\* scrape_generic_events_page, scrape_rss_feed or scrape_firm_jobs, the call
\* returns 0, appends exactly one ScrapeLog row with success = false, fetches
\* once and raises nothing.
C14_FetchFailureLoggedOnce ==
    (last.op \in ScrapeOps /\ ~last.fetch_ok) =>
        /\ last.count = 0
        /\ ~last.raised
        /\ last.attempts = 1
        /\ db.logs = Append(pre.logs, ScrapeLog(last.name, ScrapeType(last.op), FALSE))

\* The invocations run() has to make on the store d under its configuration.
PlannedCalls(config, d) ==
    LET ev == SelectSeq(event_queue(config), LAMBDA s : s.kind # "none")
        tr == tracked_queue(config)
        ef == event_firm_queue(config, d)
    IN  [i \in 1..Len(ev) |-> <<"events", ev[i].name>>]
        \o [i \in 1..Len(tr) |-> <<"known_firms", tr[i].name>>]
        \o [i \in 1..Len(ef) |-> <<"event_firms", ef[i].name>>]
        \o << <<"notify", "">> >>

\* C16: run() never lets an exception reach its caller, and whatever fetch
\* failed, every source of the run is scraped and the notifier is invoked in
\* the same run.
C16_NothingIsFatal ==
    /\ run.result # "raised"
    /\ run.result = "returned" =>
          [i \in 1..Len(run.calls) |-> <<run.calls[i].phase, run.calls[i].name>>]
              = PlannedCalls(run.config, db)

C16_Witness ==
    /\ run.result = "returned"
    /\ last.op = "notify_new_items" /\ last.res.kind = "raised"
    /\ Len(run.calls) >= 3
    /\ run.first_failed = 1

\* C21: ScrapeLog is append-only: every log_scrape call adds exactly one row
\* (also when an identical row is already there), no call changes or removes
\* a row that was there before, and the number of rows never decreases.
C21_ScrapeLogAppendOnly ==
    /\ Len(db.logs) >= Len(pre.logs)
    /\ SubSeq(db.logs, 1, Len(pre.logs)) = pre.logs
    /\ last.op = "log_scrape" =>
          \E ok \in BOOLEAN : db.logs = Append(pre.logs, ScrapeLog(last.firm, "event", ok))
    /\ last.op \notin {"log_scrape", "init"} => db.logs = pre.logs

C21_Witness ==
    /\ last.op = "log_scrape"
    /\ Len(db.logs) = 2
    /\ db.logs[1] = db.logs[2]

\* Row r of the store after the call is row p before it, but for the notified flag.
SameButNotified(p, r) == [r EXCEPT !.notified = p.notified] = p

MatchingFirms(text) == {i \in 1..Len(QUANT_FIRMS) : pattern_search(firm_patterns[i], text)}

\* The k-th smallest element of a set of indices
KthIndex(idx, k) == CHOOSE i \in idx : Cardinality({j \in idx : j < i}) = k - 1

\* C27: detect_firm returns the registry names whose pattern matches, in
\* registry order and once per registry entry (a name listed twice comes
\* twice); extract_firm_name returns the first of them, the match earliest in
\* the registry wherever it stands in the text, or none when nothing matches.
C27_RegistryOrderFirstWins ==
    LET idx == MatchingFirms(DetectorText)
    IN  /\ det.op = "detect_firm" =>
              /\ Len(det.result) = Cardinality(idx)
              /\ \A k \in 1..Len(det.result) : det.result[k] = QUANT_FIRMS[KthIndex(idx, k)]
        /\ det.op = "extract_firm_name" =>
              det.result = IF idx = {} THEN NULL ELSE QUANT_FIRMS[KthIndex(idx, 1)]

C27_Witness ==
    /\ det.op = "detect_firm"
    /\ det.title = "Optiver and Citadel Securities"
    /\ det.description = ""
    /\ det.result = <<"Citadel", "Citadel Securities", "Optiver", "Citadel Securities">>

\* C29: every firm name, lower-cased, is a registry keyword, so a text in
\* which a firm is detected has at least one keyword: the score is at least 6
\* when a firm is detected and at most 5 when none is, and a score of 5 is
\* reached only without a firm.
C29_FirmScoresAtLeastSix ==
    det.op = "score_event_relevance" =>
        /\ \A i \in 1..Len(QUANT_FIRMS) :
              \E j \in 1..Len(QUANT_KEYWORDS) : QUANT_KEYWORDS[j] = lower(QUANT_FIRMS[i])
        /\ FirmDetected(DetectorText) =>
              KeywordsOccurring(DetectorText) >= 1 /\ det.result >= 6
        /\ ~FirmDetected(DetectorText) => det.result <= 5
        /\ det.result = 5 => ~FirmDetected(DetectorText)

C29_Witness ==
    /\ det.op = "score_event_relevance"
    /\ FirmDetected(DetectorText)
    /\ KeywordsOccurring(DetectorText) = 1
    /\ det.result = 6

\* The candidate of the last extractor call and the detector's answers on it
EventAnswer == det.result.events[[title |-> det.title, description |-> det.description]]

JobAnswer ==
    det.result.jobs[[title |-> det.title, description |-> det.description, url |-> last.url]]

\* The call went on to the store: add_event / add_job_posting changed the
\* store or did not hand back a plain False
ReachedStore == last.res # ReturnBool(FALSE) \/ db # pre

\* The store call was made under this firm name: the firm exists afterwards
\* and no other firm was created
StoredUnder(name) ==
    /\ \E f \in db.firms : f.name = name
    /\ \A f \in db.firms \ pre.firms : f.name = name

\* C23: _process_event goes on to add_event only if the score is at least 3;
\* it does so under the detected firm when one is detected, otherwise under
\* 'Quantitative Finance Firm' when is_quant_related (threshold 2) holds, and
\* drops the candidate, store untouched, when the score is below 3 or neither
\* holds; every Event row the call adds has score >= 3.
C23_EventStoredOnlyIfRelevant ==
    last.op = "_process_event" =>
        LET a == EventAnswer
        IN  /\ ReachedStore => a.score >= RELEVANCE_THRESHOLD
            /\ ReachedStore /\ a.firm_name # NULL => StoredUnder(a.firm_name)
            /\ ReachedStore /\ a.firm_name = NULL =>
                  a.quant_related /\ StoredUnder(GENERIC_FIRM)
            /\ a.score < RELEVANCE_THRESHOLD \/ (a.firm_name = NULL /\ ~a.quant_related) =>
                  ~ReachedStore
            /\ db.events # pre.events => a.score >= RELEVANCE_THRESHOLD

C23_Witness ==
    /\ last.op = "_process_event"
    /\ EventAnswer.score >= RELEVANCE_THRESHOLD
    /\ EventAnswer.firm_name = "Citadel"
    /\ ReachedStore
    /\ \E f \in db.firms \ pre.firms : f.name = "Citadel"

\* C24: _process_job goes on to add_job_posting only if the url is non-empty
\* and is_relevant_job(title, description) is true; a candidate without a url
\* or that is not relevant leaves the store untouched and returns False;
\* every JobPosting row the call adds has a non-empty job_url.
C24_JobStoredOnlyIfUrlAndRelevant ==
    last.op = "_process_job" =>
        /\ ReachedStore => last.url # "" /\ JobAnswer
        /\ last.url = "" \/ ~JobAnswer => db = pre /\ last.res = ReturnBool(FALSE)
        /\ \A j \in db.jobs \ pre.jobs : j.job_url # "" /\ JobAnswer

C24_Witness ==
    /\ last.op = "_process_job"
    /\ last.url # ""
    /\ JobAnswer
    /\ ReachedStore
    /\ \E f \in db.firms \ pre.firms : f.name = last.firm

\* C28: a candidate that passes the score >= 3 test of _process_event always
\* goes on to add_event: when no firm is detected at least 3 keywords occur,
\* so is_quant_related with threshold 2 holds and the 'return False' after
\* the firm step is never taken.
C28_FirmStepNeverRejects ==
    last.op = "_process_event" /\ EventAnswer.score >= RELEVANCE_THRESHOLD =>
        /\ ReachedStore
        /\ EventAnswer.firm_name = NULL =>
              /\ KeywordsOccurring(DetectorText) >= 3
              /\ EventAnswer.quant_related

C28_Witness ==
    /\ last.op = "_process_event"
    /\ EventAnswer.score >= RELEVANCE_THRESHOLD
    /\ EventAnswer.firm_name = NULL
    /\ last.res.kind = "raised"
    /\ \E f \in db.firms : f.name = GENERIC_FIRM

ReportClasses == <<"quarterly", "annual", "fund_offering", "holdings", "presentation">>

\* The keywords that stand for a report class
ClassKeywords(class) ==
    CASE class = "quarterly" -> {"quarterly", "10-q", "q1", "q2", "q3", "q4"}
      [] class = "annual" -> {"annual", "10-k", "yearly"}
      [] class = "fund_offering" -> {"fund", "offering", "prospectus"}
      [] class = "holdings" -> {"13f", "holdings"}
      [] class = "presentation" -> {"presentation"}

\* The positions of the classes one of whose keywords occurs in the lower-cased
\* 'text href'
ClassesOccurring ==
    {i \in 1..Len(ReportClasses) :
        \E kw \in ClassKeywords(ReportClasses[i]) : Contains(kw, lower(DetectorText))}

\* C26: _classify_report_type returns one of the six types; when keywords of
\* several classes occur in 'text href' the class earliest in the order
\* quarterly, annual, fund_offering, holdings, presentation is returned, and
\* 'other' exactly when no class keyword occurs.
C26_ReportTypeByPrecedence ==
    det.op = "_classify_report_type" =>
        /\ det.result \in {ReportClasses[i] : i \in 1..Len(ReportClasses)} \cup {"other"}
        /\ ClassesOccurring = {} <=> det.result = "other"
        /\ \A i \in ClassesOccurring :
              (\A j \in ClassesOccurring : i <= j) => det.result = ReportClasses[i]

C26_Witness ==
    /\ det.op = "_classify_report_type"
    /\ det.title = "Presentation Fund"
    /\ det.description = "/docs/10-K.pdf"
    /\ ClassesOccurring = {2, 3, 5}
    /\ det.result = "annual"

\* C25: _process_blog_post accepts every candidate with a non-empty title and
\* a non-empty url that is not stored yet, whether or not its content was
\* fetched and saved (the only thing is_technical decides): it returns True
\* and the blog post is stored.
C25_BlogAcceptedWhateverTechnical ==
    (/\ last.op = "_process_blog_post"
     /\ last.title # ""
     /\ last.url # ""
     /\ ~ \E b \in pre.blogs : b.url = last.url) =>
        /\ last.res = ReturnBool(TRUE)
        /\ \E b \in db.blogs : b.url = last.url /\ b.title = last.title

\* C30: a blog post, report or video whose url is already stored is processed
\* without a write to the file storage: save_blog_post, save_report and
\* save_transcript are not called.
C30_DuplicateWritesNoFile ==
    [][\A c \in {<<"_process_blog_post", "blogs">>, <<"_process_report", "reports">>,
                 <<"_process_video", "videos">>} :
          (last'.op = c[1] /\ \E r \in db[c[2]] : r.url = last'.url) => files' = files]_vars

====
